---- MODULE Spec2Model ----
(***************************************************************************)
(* Model of apngasm's build-specification reader                           *)
(* (src/src/specreader/specreaderimpl.cpp): the delay parser str2delay,    *)
(* the path resolver getFiles, the format dispatch of SpecReader and the   *)
(* JSON frame-list builder JsonSpecReader, including its use of the        *)
(* process-wide working directory and of getFiles' static result buffer.   *)
(*                                                                         *)
(* Strings are sequences of one-character strings.  An unsigned int is a   *)
(* pair <<hi, lo>> of 16-bit limbs (value hi * 2^16 + lo), so the 32-bit   *)
(* range and its wrap-around are kept exactly.                             *)
(***************************************************************************)
EXTENDS Integers, Sequences, FiniteSets, TLC

VARIABLES
  dToken,      \* str2delay: the argument str
  dResult,     \* str2delay: the returned Delay, Nothing before the call
  gSpec,       \* getFiles: the argument filepath
  gCalled,     \* getFiles: "no", "returned" or "threw"
  fsFiles,     \* the filesystem: full paths of the regular files
  cwd,         \* the process-wide current working directory
  files,       \* getFiles' function-local static vector
  loads,       \* per caller thread: the state of its SpecReader construction
  serialized   \* whether the callers serialize their loads with a mutex

vars == <<dToken, dResult, gSpec, gCalled, fsFiles, cwd, files, loads, serialized>>


----------------------------------------------------------------------------
(* Bounds of the model.                                                    *)

MaxTokenLen == 3
MaxFrames == 3
MaxDelays == 2
MaxDirFiles == 3

----------------------------------------------------------------------------
(* Characters and strings.                                                 *)

\* The value of a char as std::string compares it (ASCII).
CharCode(c) ==
  CASE c = "*" -> 42 [] c = "+" -> 43 [] c = "-" -> 45 [] c = "." -> 46
    [] c = "/" -> 47 [] c = "0" -> 48 [] c = "1" -> 49 [] c = "2" -> 50
    [] c = "3" -> 51 [] c = "4" -> 52 [] c = "5" -> 53 [] c = "6" -> 54
    [] c = "7" -> 55 [] c = "8" -> 56 [] c = "9" -> 57
    [] c = "A" -> 65 [] c = "G" -> 71 [] c = "J" -> 74 [] c = "N" -> 78
    [] c = "O" -> 79 [] c = "P" -> 80 [] c = "S" -> 83
    [] c = "\\" -> 92
    [] c = "a" -> 97 [] c = "b" -> 98 [] c = "c" -> 99 [] c = "d" -> 100
    [] c = "g" -> 103 [] c = "j" -> 106 [] c = "l" -> 108 [] c = "m" -> 109
    [] c = "n" -> 110 [] c = "o" -> 111 [] c = "p" -> 112 [] c = "q" -> 113
    [] c = "s" -> 115 [] c = "t" -> 116 [] c = "v" -> 118 [] c = "w" -> 119
    [] c = "x" -> 120 [] c = "z" -> 122

IsDigit(c) == c \in {"0", "1", "2", "3", "4", "5", "6", "7", "8", "9"}

\* std::tolower of one char, as boost::algorithm::is_iequal applies it.
ToLower(c) ==
  CASE c = "A" -> "a" [] c = "G" -> "g" [] c = "J" -> "j" [] c = "N" -> "n"
    [] c = "O" -> "o" [] c = "P" -> "p" [] c = "S" -> "s"
    [] OTHER -> c

\* std::string::find(ch, 0): the 1-based index of the first ch, 0 for npos.
RECURSIVE FindFrom(_, _, _)
FindFrom(s, ch, i) ==
  IF i > Len(s) THEN 0
  ELSE IF s[i] = ch THEN i
  ELSE FindFrom(s, ch, i + 1)

Find(s, ch) == FindFrom(s, ch, 1)

\* boost::algorithm::iends_with(s, suffix).
IEndsWith(s, suffix) ==
  /\ Len(s) >= Len(suffix)
  /\ \A i \in 1..Len(suffix) :
       ToLower(s[Len(s) - Len(suffix) + i]) = ToLower(suffix[i])

\* std::string operator< (lexicographic on char values).
RECURSIVE StrLess(_, _)
StrLess(a, b) ==
  IF b = <<>> THEN FALSE
  ELSE IF a = <<>> THEN TRUE
  ELSE IF a[1] = b[1] THEN StrLess(Tail(a), Tail(b))
  ELSE CharCode(a[1]) < CharCode(b[1])

\* All strings over the alphabet of length at most n.
RECURSIVE StringsUpTo(_, _)
StringsUpTo(alphabet, n) ==
  IF n = 0 THEN {<<>>}
  ELSE LET shorter == StringsUpTo(alphabet, n - 1)
       IN  shorter \cup {Append(s, c) : s \in shorter, c \in alphabet}

----------------------------------------------------------------------------
(* s2u and str2delay (lines 16-54).                                        *)

Limb == 2^16

\* An unsigned int below 2^16.
U(n) == <<0, n>>

\* The two constants of apngframe.h.
DEFAULT_FRAME_NUMERATOR == 100
DEFAULT_FRAME_DENOMINATOR == 1000

\* value * 10 + digit in unsigned int, with the overflow lexical_cast detects.
MulAdd10(r, d) ==
  LET lo == r.val[2] * 10 + d
      hi == r.val[1] * 10 + (lo \div Limb)
  IN  IF ~r.ok \/ hi >= Limb THEN [ok |-> FALSE, val |-> <<0, 0>>]
      ELSE [ok |-> TRUE, val |-> <<hi, lo % Limb>>]

\* The digits of s, most significant first, as an unsigned int.
RECURSIVE ParseDigits(_, _)
ParseDigits(s, acc) ==
  IF s = <<>> THEN acc
  ELSE IF ~IsDigit(s[1]) THEN [ok |-> FALSE, val |-> <<0, 0>>]
  ELSE ParseDigits(Tail(s), MulAdd10(acc, CharCode(s[1]) - 48))

\* 0u - v in unsigned int.
NegU32(v) ==
  IF v = <<0, 0>> THEN v
  ELSE IF v[2] = 0 THEN <<Limb - v[1], 0>>
  ELSE <<Limb - 1 - v[1], Limb - v[2]>>

\* boost::lexical_cast<unsigned int>(str): one optional sign, then digits
\* only; a leading '-' negates the parsed value in unsigned int.
LexicalCastUnsigned(str) ==
  LET signed == str # <<>> /\ str[1] \in {"-", "+"}
      body   == IF signed THEN Tail(str) ELSE str
      r      == ParseDigits(body, [ok |-> TRUE, val |-> <<0, 0>>])
  IN  IF body = <<>> \/ ~r.ok THEN [ok |-> FALSE, val |-> <<0, 0>>]
      ELSE IF str[1] = "-" THEN [ok |-> TRUE, val |-> NegU32(r.val)]
      ELSE r

s2u(str, defaultValue) ==
  LET r == LexicalCastUnsigned(str)
  IN  IF r.ok THEN r.val ELSE defaultValue

str2delay(str) ==
  LET index == Find(str, "/")
  IN  IF index = 0
      THEN [num |-> s2u(str, U(DEFAULT_FRAME_NUMERATOR)),
            den |-> U(DEFAULT_FRAME_DENOMINATOR)]
      ELSE LET num == SubSeq(str, 1, index - 1)
               den == SubSeq(str, index + 1, Len(str))
           IN  [num |-> s2u(num, U(DEFAULT_FRAME_NUMERATOR)),
                den |-> s2u(den, U(DEFAULT_FRAME_DENOMINATOR))]

----------------------------------------------------------------------------
(* The filesystem and getFiles (lines 57-113).                             *)

\* The image extension ".png".
PNG == <<".", "p", "n", "g">>

\* The directories that exist.
Dirs ==
  { <<"/">>, <<"/", "d">>, <<"/", "d", ".", "v">>, <<"/", "w">>,
    <<"/", "d", "/", "s", ".", "p", "n", "g">> }

Range(s) == {s[i] : i \in 1..Len(s)}

\* boost::filesystem::exists(p). fsFiles lists the regular files, in the
\* order a directory_iterator yields them.
Exists(p) == p \in Dirs \/ p \in Range(fsFiles)

\* boost::filesystem::path::parent_path() on POSIX ('/' is the only separator).
RECURSIVE LastSlash(_, _)
LastSlash(s, i) ==
  IF i = 0 THEN 0
  ELSE IF s[i] = "/" THEN i
  ELSE LastSlash(s, i - 1)

ParentPath(s) ==
  LET k == LastSlash(s, Len(s))
  IN  IF k = 0 THEN <<>>
      ELSE IF k = 1 THEN <<"/">>
      ELSE SubSeq(s, 1, k - 1)

\* boost::filesystem::absolute(filepath), whose base is current_path().
Absolute(filepath, base) ==
  IF filepath # <<>> /\ filepath[1] = "/" THEN filepath
  ELSE IF base = <<"/">> THEN base \o filepath
  ELSE base \o <<"/">> \o filepath

\* The characters of the regex `escape` (line 79).
EscapeSet == {"^", ".", "$", "|", "(", ")", "[", "]", "+", "?", "\\"}

\* regex_replace(s, escape, "\\\\$0"): a backslash before each such char.
RECURSIVE EscapeRegex(_)
EscapeRegex(s) ==
  IF s = <<>> THEN <<>>
  ELSE IF s[1] \in EscapeSet THEN <<"\\", s[1]>> \o EscapeRegex(Tail(s))
  ELSE <<s[1]>> \o EscapeRegex(Tail(s))

\* regex_replace(s, wildcard, ".+").
RECURSIVE ReplaceWildcard(_)
ReplaceWildcard(s) ==
  IF s = <<>> THEN <<>>
  ELSE IF s[1] = "*" THEN <<".", "+">> \o ReplaceWildcard(Tail(s))
  ELSE <<s[1]>> \o ReplaceWildcard(Tail(s))

\* boost::regex_match(str, boost::regex(pattern)) for the patterns line 82-83
\* produce: an escaped char, ".+", or a char that stands for itself.
RECURSIVE RegexMatch(_, _)
RegexMatch(str, pattern) ==
  IF pattern = <<>> THEN str = <<>>
  ELSE IF pattern[1] = "\\" /\ Len(pattern) >= 2
    THEN /\ str # <<>>
         /\ str[1] = pattern[2]
         /\ RegexMatch(Tail(str), Tail(Tail(pattern)))
  ELSE IF pattern[1] = "." /\ Len(pattern) >= 2 /\ pattern[2] = "+"
    THEN \E k \in 1..Len(str) :
           RegexMatch(SubSeq(str, k + 1, Len(str)), Tail(Tail(pattern)))
  ELSE /\ str # <<>>
       /\ str[1] = pattern[1]
       /\ RegexMatch(Tail(str), Tail(pattern))

RECURSIVE SetToSeq(_)
SetToSeq(S) ==
  IF S = {} THEN <<>>
  ELSE LET x == CHOOSE y \in S : TRUE
       IN  <<x>> \o SetToSeq(S \ {x})

\* What directory_iterator(dir) yields: the entries directly inside dir.
DirEntries(dir) ==
  LET inDir(e) == ParentPath(e) = dir /\ e # dir
  IN  SelectSeq(fsFiles, inDir) \o SetToSeq({d \in Dirs : inDir(d)})

\* boost::filesystem::is_regular_file(itCur->status()).
IsRegularFile(e) == e \notin Dirs

\* boost::sort(files).
SortFiles(fs) == SortSeq(fs, StrLess)

\* A faulty UniqueFile, which C8 must tell from it: ends_with in place of
\* iends_with, so the letter case is compared.
UniqueFileCaseSensitive(absPath) ==
  IF Len(absPath) >= 4 /\ SubSeq(absPath, Len(absPath) - 3, Len(absPath)) = PNG
  THEN <<absPath>>
  ELSE <<absPath \o PNG>>

\* The no-wildcard branch (lines 67-73).
UniqueFile(absPath) ==
  IF IEndsWith(absPath, PNG) THEN <<absPath>> ELSE <<absPath \o PNG>>

\* The wildcard pattern as a regex over full paths (lines 82-83).
WildcardPattern(absPath) == ReplaceWildcard(EscapeRegex(absPath))

\* The wildcard branch (lines 76-110).
WildcardFiles(absPath) ==
  LET pattern == WildcardPattern(absPath)
      parent  == ParentPath(pattern)
      keep(e) == /\ IsRegularFile(e)
                 /\ RegexMatch(e, pattern)
                 /\ IEndsWith(e, PNG)
  IN  IF ~Exists(parent) THEN [threw |-> FALSE, files |-> <<>>]
      \* directory_iterator's constructor throws on a non-directory
      ELSE IF parent \notin Dirs THEN [threw |-> TRUE, files |-> <<>>]
      ELSE [threw |-> FALSE,
            files |-> SortFiles(SelectSeq(DirEntries(parent), keep))]

\* getFiles after files.clear() (lines 66-112): whether it threw and what
\* the static vector holds afterwards.
ResolveAbs(absPath) ==
  IF Find(absPath, "*") = 0
  THEN [threw |-> FALSE, files |-> UniqueFile(absPath)]
  ELSE WildcardFiles(absPath)

\* getFiles(filepath) called with the working directory base.
getFiles(filepath, base) == ResolveAbs(Absolute(filepath, base))

----------------------------------------------------------------------------
(* Spec documents: what read_json yields for the file at a path.           *)

Nothing == <<>>
Some(x) == <<x>>

JSON == <<".", "j", "s", "o", "n">>

Bare(path) == [inline |-> FALSE, path |-> path, token |-> <<>>]
Inline(path, token) == [inline |-> TRUE, path |-> path, token |-> token]

\* A decodable document: the optional scalars, and the two lists.
Doc(opt, delays, frames) ==
  [state |-> "ok",
   name |-> IF opt THEN Some(<<"m">>) ELSE Nothing,
   loops |-> IF opt THEN Some(2) ELSE Nothing,
   skip_first |-> IF opt THEN Some(TRUE) ELSE Nothing,
   default_delay |-> IF opt THEN Some(<<"1", "/", "2", "0">>) ELSE Nothing,
   delays |-> delays,
   frames |-> frames]

\* A file that is missing ("missing") or not valid JSON ("invalid").
NoDoc(state) ==
  [state |-> state, name |-> Nothing, loops |-> Nothing,
   skip_first |-> Nothing, default_delay |-> Nothing,
   delays |-> Nothing, frames |-> Nothing]

----------------------------------------------------------------------------
(* SpecReader, AbstractSpecReader, JsonSpecReader and XmlSpecReader        *)
(* (lines 117-259), one construction per caller thread.                    *)

Running(t) == loads[t].pc \notin {"idle", "done", "failed"}

\* A load that has not started: the arguments it will be called with.
IdleLoad(filePath, content) ==
  [pc |-> "idle", filePath |-> filePath, content |-> content,
   builder |-> "none", err |-> "none",
   name |-> <<>>, loops |-> 0, skipFirst |-> FALSE, frameInfos |-> <<>>,
   oldPath |-> <<>>, defaultDelay |-> [num |-> U(0), den |-> U(0)],
   delays |-> <<>>, delayIndex |-> 0, child |-> 0,
   delay |-> [num |-> U(0), den |-> U(0)], absPath |-> <<>>,
   \* history: the working directory when the call began, and per finished
   \* declaration the delay it was given and the slice of files it read
   cwdAtCall |-> <<>>, declLog |-> <<>>]

Throw(t, what) ==
  loads' = [loads EXCEPT ![t].pc = "failed", ![t].err = what]

\* The builder SpecReader::SpecReader picks (lines 120-124).
SelectBuilder(filePath) ==
  IF IEndsWith(filePath, JSON) THEN "json" ELSE "xml"

\* The callers' discipline of section 5 of the specification: under a mutex
\* a load begins only while no other load is running.
MayEnter(t) == serialized => \A u \in DOMAIN loads : ~Running(u)

\* SpecReader::SpecReader (lines 117-125) with AbstractSpecReader's
\* initialisation (lines 162-169); XmlSpecReader's body is empty (256-259).
Construct(t) ==
  /\ loads[t].pc = "idle"
  /\ MayEnter(t)
  /\ LET b == SelectBuilder(loads[t].filePath)
     IN  loads' = [loads EXCEPT
           ![t].builder = b,
           ![t].cwdAtCall = cwd,
           ![t].name = <<>>, ![t].loops = 0, ![t].skipFirst = FALSE,
           ![t].frameInfos = <<>>,
           ![t].pc = IF b = "json" THEN "read_json" ELSE "done"]
  /\ UNCHANGED <<dToken, dResult, gSpec, gCalled, fsFiles, cwd, files, serialized>>

\* read_json(filePath, root) (lines 175-176).
ReadJson(t) ==
  /\ loads[t].pc = "read_json"
  /\ IF loads[t].content.state # "ok"
     THEN Throw(t, "json_parser_error")
     ELSE loads' = [loads EXCEPT ![t].pc = "save_cwd"]
  /\ UNCHANGED <<dToken, dResult, gSpec, gCalled, fsFiles, cwd, files, serialized>>

\* oldPath = current_path() (line 179).
SaveCwd(t) ==
  /\ loads[t].pc = "save_cwd"
  /\ loads' = [loads EXCEPT ![t].oldPath = cwd, ![t].pc = "set_cwd"]
  /\ UNCHANGED <<dToken, dResult, gSpec, gCalled, fsFiles, cwd, files, serialized>>

\* current_path(path(filePath).parent_path()) (line 180); chdir fails on ""
\* and on a directory that does not exist.
SetCwd(t) ==
  /\ loads[t].pc = "set_cwd"
  /\ LET parent == ParentPath(loads[t].filePath)
     IN  IF parent = <<>> \/ Absolute(parent, cwd) \notin Dirs
         THEN Throw(t, "filesystem_error") /\ UNCHANGED cwd
         ELSE /\ cwd' = Absolute(parent, cwd)
              /\ loads' = [loads EXCEPT ![t].pc = "scalars"]
  /\ UNCHANGED <<dToken, dResult, gSpec, gCalled, fsFiles, files, serialized>>

\* name, loops, skip_first, default_delay (lines 182-205).
ReadScalars(t) ==
  /\ loads[t].pc = "scalars"
  /\ LET root == loads[t].content
     IN  loads' = [loads EXCEPT
           ![t].name = IF root.name # Nothing THEN root.name[1] ELSE @,
           ![t].loops = IF root.loops # Nothing THEN root.loops[1] ELSE @,
           ![t].skipFirst =
              IF root.skip_first # Nothing THEN root.skip_first[1] ELSE @,
           ![t].defaultDelay =
              IF root.default_delay # Nothing
              THEN str2delay(root.default_delay[1])
              ELSE [num |-> U(DEFAULT_FRAME_NUMERATOR),
                    den |-> U(DEFAULT_FRAME_DENOMINATOR)],
           ![t].pc = "delays"]
  /\ UNCHANGED <<dToken, dResult, gSpec, gCalled, fsFiles, cwd, files, serialized>>

\* A faulty GetChild, which C4 must tell from it: an absent list is read as
\* an empty one.
GetChildOrEmpty(list) ==
  [threw |-> FALSE, items |-> IF list = Nothing THEN <<>> ELSE list[1]]

\* root.get_child(key): the list, or ptree_bad_path when it is absent.
GetChild(list) == [threw |-> list = Nothing,
                   items |-> IF list = Nothing THEN <<>> ELSE list[1]]

\* The delays list (lines 207-211).
ReadDelays(t) ==
  /\ loads[t].pc = "delays"
  /\ LET child == GetChild(loads[t].content.delays)
     IN  IF child.threw
         THEN Throw(t, "ptree_bad_path")
         ELSE loads' = [loads EXCEPT
                ![t].delays = [i \in 1..Len(child.items) |->
                                 str2delay(child.items[i])],
                ![t].pc = "frames"]
  /\ UNCHANGED <<dToken, dResult, gSpec, gCalled, fsFiles, cwd, files, serialized>>

\* delayIndex = 0 and root.get_child("frames") (lines 214-215).
BeginFrames(t) ==
  /\ loads[t].pc = "frames"
  /\ IF GetChild(loads[t].content.frames).threw
     THEN Throw(t, "ptree_bad_path")
     ELSE loads' = [loads EXCEPT
            ![t].delayIndex = 0, ![t].child = 0, ![t].pc = "loop"]
  /\ UNCHANGED <<dToken, dResult, gSpec, gCalled, fsFiles, cwd, files, serialized>>

Frames(t) == GetChild(loads[t].content.frames).items

\* A faulty SelectDelay, which C2 must tell from it: a positional delay,
\* when there is one, wins over the inline token.
SelectDelayPositionalFirst(frame, delays, delayIndex, defaultDelay) ==
  IF delayIndex < Len(delays) THEN delays[delayIndex + 1]
  ELSE IF frame.inline THEN str2delay(frame.token)
  ELSE defaultDelay

\* The delay of one declaration (lines 221-237); delayIndex counts from 0.
SelectDelay(frame, delays, delayIndex, defaultDelay) ==
  IF ~frame.inline
  THEN IF delayIndex < Len(delays) THEN delays[delayIndex + 1]
       ELSE defaultDelay
  ELSE str2delay(frame.token)

\* One iteration up to getFiles' files.clear() (lines 217-237, 57-64);
\* child is the position of BOOST_FOREACH in the frames list.
EnterGetFiles(t) ==
  /\ loads[t].pc = "loop"
  /\ loads[t].child < Len(Frames(t))
  /\ LET frame == Frames(t)[loads[t].child + 1]
     IN  loads' = [loads EXCEPT
           ![t].delay = SelectDelay(frame, loads[t].delays,
                                    loads[t].delayIndex, loads[t].defaultDelay),
           ![t].absPath = Absolute(frame.path, cwd),
           ![t].pc = "resolve"]
  /\ files' = <<>>
  /\ UNCHANGED <<dToken, dResult, gSpec, gCalled, fsFiles, cwd, serialized>>

\* The rest of getFiles (lines 66-112).
FillFiles(t) ==
  /\ loads[t].pc = "resolve"
  /\ LET r == ResolveAbs(loads[t].absPath)
     IN  /\ files' = r.files
         /\ IF r.threw
            THEN Throw(t, "filesystem_error")
            ELSE loads' = [loads EXCEPT ![t].pc = "copy"]
  /\ UNCHANGED <<dToken, dResult, gSpec, gCalled, fsFiles, cwd, serialized>>

\* A faulty NextDelayIndex, which C1 must tell from it: the index advances
\* once per expanded file.
NextDelayIndexPerFile(delayIndex, count) == delayIndex + count

\* The index after one declaration (line 248).
NextDelayIndex(delayIndex, count) == delayIndex + 1

\* The FrameInfo loop over the static vector and ++delayIndex (lines 240-248).
AddFrameInfos(t) ==
  /\ loads[t].pc = "copy"
  /\ LET count == Len(files)
         added == [i \in 1..count |->
                     [filePath |-> files[i], delay |-> loads[t].delay]]
     IN  loads' = [loads EXCEPT
           ![t].frameInfos = @ \o added,
           ![t].declLog = Append(@, [delay |-> loads[t].delay, files |-> files]),
           ![t].delayIndex = NextDelayIndex(@, count),
           ![t].child = @ + 1,
           ![t].pc = "loop"]
  /\ UNCHANGED <<dToken, dResult, gSpec, gCalled, fsFiles, cwd, files, serialized>>

\* A faulty RestoreTarget, which C10 must tell from it: the working
\* directory is left where the load put it.
RestoreTargetKeep(oldPath, current) == current

\* The directory line 252 makes current.
RestoreTarget(oldPath, current) == oldPath

\* The end of the loop and current_path(oldPath) (line 252).
ResetCwd(t) ==
  /\ loads[t].pc = "loop"
  /\ loads[t].child >= Len(Frames(t))
  /\ cwd' = RestoreTarget(loads[t].oldPath, cwd)
  /\ loads' = [loads EXCEPT ![t].pc = "done"]
  /\ UNCHANGED <<dToken, dResult, gSpec, gCalled, fsFiles, files, serialized>>

NextLoad ==
  \/ \E t \in DOMAIN loads : Construct(t)
  \/ \E t \in DOMAIN loads : ReadJson(t)
  \/ \E t \in DOMAIN loads : SaveCwd(t)
  \/ \E t \in DOMAIN loads : SetCwd(t)
  \/ \E t \in DOMAIN loads : ReadScalars(t)
  \/ \E t \in DOMAIN loads : ReadDelays(t)
  \/ \E t \in DOMAIN loads : BeginFrames(t)
  \/ \E t \in DOMAIN loads : EnterGetFiles(t)
  \/ \E t \in DOMAIN loads : FillFiles(t)
  \/ \E t \in DOMAIN loads : AddFrameInfos(t)
  \/ \E t \in DOMAIN loads : ResetCwd(t)

----------------------------------------------------------------------------
(* str2delay on its own.                                                   *)

DelayAlphabet == {"1", "3", "0", "/", "x", "-"}

\* Tokens beyond the enumerated ones: the examples and the 32-bit limits.
LongTokens ==
  { <<"1", "2">>, <<"1", "/", "3", "0">>, <<"x", "/", "3", "0">>,
    <<"1", "/", "2", "/", "3">>, <<"+", "5">>, <<"0", "0", "0", "7">>,
    <<"4", "2", "9", "4", "9", "6", "7", "2", "9", "5">>,
    <<"4", "2", "9", "4", "9", "6", "7", "2", "9", "6">>,
    <<"-", "4", "2", "9", "4", "9", "6", "7", "2", "9", "5">>,
    <<"-", "4", "2", "9", "4", "9", "6", "7", "2", "9", "6">>,
    <<"7", "/", "4", "2", "9", "4", "9", "6", "7", "2", "9", "6">>,
    <<"9", "9", "9", "9", "9", "9", "9", "9", "9", "9", "9">> }

Tokens == StringsUpTo(DelayAlphabet, MaxTokenLen) \cup LongTokens

IdleFs == <<>>
NoLoads == <<>>

InitDelay ==
  /\ dToken \in Tokens
  /\ dResult = Nothing
  /\ gSpec = <<>>
  /\ gCalled = "no"
  /\ fsFiles = IdleFs
  /\ cwd = <<"/">>
  /\ files = <<>>
  /\ loads = NoLoads
  /\ serialized = FALSE

CallStr2delay ==
  /\ dResult = Nothing
  /\ dResult' = Some(str2delay(dToken))
  /\ UNCHANGED <<dToken, gSpec, gCalled, fsFiles, cwd, files, loads, serialized>>

NextDelay == CallStr2delay

SpecDelay == InitDelay /\ [][NextDelay]_vars

----------------------------------------------------------------------------
(* getFiles on its own.                                                    *)

P(dir, name) == dir \o <<"/">> \o name

DirD == <<"/", "d">>
DirDV == <<"/", "d", ".", "v">>
DirW == <<"/", "w">>

\* The regular files a listing may hold.
CandidateFiles ==
  { P(DirD, <<"a", ".", "p", "n", "g">>),
    P(DirD, <<"b", ".", "p", "n", "g">>),
    P(DirD, <<"c", ".", "p", "n", "g">>),
    P(DirD, <<"a", "1", ".", "p", "n", "g">>),
    P(DirD, <<"a", "2", ".", "P", "N", "G">>),
    P(DirD, <<"a", "b">>),
    P(DirDV, <<"a", "1", ".", "p", "n", "g">>) }

\* The sequences without repetition of at most n elements of S.
RECURSIVE Listings(_, _)
Listings(S, n) ==
  IF n = 0 THEN {<<>>}
  ELSE LET shorter == Listings(S, n - 1)
       IN  shorter \cup {Append(l, f) : l \in shorter, f \in S}

NoRepeat(l) == \A i, j \in 1..Len(l) : i # j => l[i] # l[j]

PathSpecs ==
  { <<"*", ".", "p", "n", "g">>,
    <<"a", "*", ".", "p", "n", "g">>,
    <<"a", "*">>,
    P(DirD, <<"a", "*", ".", "p", "n", "g">>),
    P(DirDV, <<"a", "*", ".", "p", "n", "g">>),
    P(<<"/", "q">>, <<"a", "*", ".", "p", "n", "g">>),
    P(P(DirD, <<"a", "b">>), <<"*">>),
    <<"f">>,
    <<"a", ".", "p", "n", "g">>,
    <<"A", ".", "P", "N", "G">>,
    P(DirD, <<"a", ".", "p", "n", "g">>),
    P(<<"q">>, <<"c">>),
    <<"a", ".", "p", "n">> }

InitFiles ==
  /\ dToken = <<>>
  /\ dResult = Nothing
  /\ gSpec \in PathSpecs
  /\ gCalled = "no"
  /\ fsFiles \in {l \in Listings(CandidateFiles, MaxDirFiles) : NoRepeat(l)}
  /\ cwd \in {DirD, DirDV, DirW}
  /\ files \in {<<>>, <<P(DirW, <<"o", ".", "p", "n", "g">>)>>}
  /\ loads = NoLoads
  /\ serialized = FALSE

CallGetFiles ==
  /\ gCalled = "no"
  /\ LET r == getFiles(gSpec, cwd)
     IN  /\ files' = r.files
         /\ gCalled' = IF r.threw THEN "threw" ELSE "returned"
  /\ UNCHANGED <<dToken, dResult, gSpec, fsFiles, cwd, loads, serialized>>

NextFiles == CallGetFiles

SpecFiles == InitFiles /\ [][NextFiles]_vars

----------------------------------------------------------------------------
(* Claims about str2delay.                                                 *)

\* The unsigned int a part denotes as the specification reads it: an
\* optional sign and digits whose value lies in 0 .. 2^32 - 1, and the
\* default constant for every other part.
ClaimedPart(part, defaultValue) ==
  LET signed == part # <<>> /\ part[1] \in {"-", "+"}
      body   == IF signed THEN Tail(part) ELSE part
      r      == ParseDigits(body, [ok |-> TRUE, val |-> <<0, 0>>])
  IN  IF body = <<>> \/ ~r.ok THEN defaultValue
      ELSE IF part[1] = "-" /\ r.val # <<0, 0>> THEN defaultValue
      ELSE r.val

ClaimedDelay(token) ==
  LET index == Find(token, "/")
  IN  IF index = 0
      THEN [num |-> ClaimedPart(token, U(DEFAULT_FRAME_NUMERATOR)),
            den |-> U(DEFAULT_FRAME_DENOMINATOR)]
      ELSE [num |-> ClaimedPart(SubSeq(token, 1, index - 1),
                                U(DEFAULT_FRAME_NUMERATOR)),
            den |-> ClaimedPart(SubSeq(token, index + 1, Len(token)),
                                U(DEFAULT_FRAME_DENOMINATOR))]

\* C7: str2delay returns a Delay for every token; the token is split at its
\* first '/', and a part that is empty, non-numeric or out of the range of
\* unsigned int becomes its own default constant.
C7_ParseDelayAsClaimed ==
  dResult # Nothing => dResult[1] = ClaimedDelay(dToken)

\* The part of C7 the code meets: tokens without a minus sign.
C7_HoldsWithoutMinus ==
  (dResult # Nothing /\ "-" \notin Range(dToken)) =>
    dResult[1] = ClaimedDelay(dToken)

----------------------------------------------------------------------------
(* Claims about getFiles.                                                  *)

HasWildcard(path) == Find(path, "*") # 0

\* s ends in ".png" in any letter case.
EndsInPng(s) ==
  /\ Len(s) >= 4
  /\ s[Len(s) - 3] = "."
  /\ s[Len(s) - 2] \in {"p", "P"}
  /\ s[Len(s) - 1] \in {"n", "N"}
  /\ s[Len(s)] \in {"g", "G"}

\* C8: for a path without '*', getFiles returns exactly one path, whether or
\* not the file exists: the absolute path itself when it ends in ".png" in
\* any letter case, and with ".png" appended otherwise; the extension rule
\* leaves such a result unchanged.
C8_UniqueFileResolved ==
  LET abs == Absolute(gSpec, cwd)
  IN  (gCalled # "no" /\ ~HasWildcard(abs)) =>
        /\ gCalled = "returned"
        /\ Len(files) = 1
        /\ files[1] = (IF EndsInPng(abs) THEN abs ELSE abs \o PNG)
        /\ UniqueFile(files[1]) = files

\* C8 witness: "f" resolved to "<cwd>/f.png", a file that does not exist.
C8_Witness ==
  /\ gCalled = "returned"
  /\ gSpec = <<"f">>
  /\ files = <<P(cwd, <<"f", ".", "p", "n", "g">>)>>
  /\ ~Exists(files[1])

\* s matches the path pattern pat, each '*' standing for one or more chars.
RECURSIVE GlobMatch(_, _)
GlobMatch(s, pat) ==
  IF pat = <<>> THEN s = <<>>
  ELSE IF pat[1] = "*"
    THEN \E k \in 1..Len(s) : GlobMatch(SubSeq(s, k + 1, Len(s)), Tail(pat))
  ELSE s # <<>> /\ s[1] = pat[1] /\ GlobMatch(Tail(s), Tail(pat))

\* The regular files the pattern pat selects as the specification reads it.
ClaimedMatches(pat) ==
  {f \in Range(fsFiles) :
     /\ ParentPath(f) = ParentPath(pat)
     /\ GlobMatch(f, pat)
     /\ EndsInPng(f)}

\* fs lists exactly the set S, ascending and without duplicates.
SortedListOf(fs, S) ==
  /\ Range(fs) = S
  /\ \A i, j \in 1..Len(fs) : i < j => StrLess(fs[i], fs[j])

\* C6: for a path with '*', getFiles returns exactly the regular files
\* directly in the pattern's parent directory whose full path matches the
\* pattern ('*' one or more chars) and ends in ".png" in any letter case,
\* sorted ascending without duplicates, whatever the enumeration order.
C6_WildcardAsClaimed ==
  LET abs == Absolute(gSpec, cwd)
  IN  (gCalled = "returned" /\ HasWildcard(abs)) =>
        SortedListOf(files, ClaimedMatches(abs))

\* The part of C6 the code meets: parent directories whose path holds no
\* character of the regex escape set.
C6_HoldsWithoutEscapedParent ==
  LET abs == Absolute(gSpec, cwd)
  IN  (gCalled = "returned" /\ HasWildcard(abs)
        /\ Range(ParentPath(abs)) \cap (EscapeSet \cup {"*"}) = {}) =>
        SortedListOf(files, ClaimedMatches(abs))

----------------------------------------------------------------------------
(* One load (Spec) and two loads by two threads (SpecConc).                *)

InitialCwd == DirW

A_PNG == <<"a", ".", "p", "n", "g">>
B1_PNG == <<"b", "1", ".", "p", "n", "g">>
B2_PNG == <<"b", "2", ".", "p", "n", "g">>
C_PNG == <<"c", ".", "p", "n", "g">>
B_STAR_PNG == <<"b", "*", ".", "p", "n", "g">>
S_JSON == <<"s", ".", "j", "s", "o", "n">>

\* Both spec directories hold a.png, b1.png, b2.png, c.png and s.json; /d
\* also holds the regular file f. Two enumeration orders.
LoadListings ==
  { << P(DirD, B2_PNG), P(DirD, A_PNG), P(DirD, S_JSON), P(DirD, C_PNG),
       P(DirD, <<"f">>), P(DirD, B1_PNG),
       P(DirDV, C_PNG), P(DirDV, B2_PNG), P(DirDV, S_JSON), P(DirDV, A_PNG),
       P(DirDV, B1_PNG) >>,
    << P(DirDV, A_PNG), P(DirDV, B1_PNG), P(DirDV, B2_PNG), P(DirDV, C_PNG),
       P(DirDV, S_JSON),
       P(DirD, C_PNG), P(DirD, B1_PNG), P(DirD, <<"f">>), P(DirD, A_PNG),
       P(DirD, S_JSON), P(DirD, B2_PNG) >> }

\* The frame declarations the enumerated documents draw from: one file, two
\* files, no file (the parent directory is missing), and an inline delay.
DeclSet ==
  { Bare(A_PNG),
    Bare(B_STAR_PNG),
    Bare(P(<<"q">>, <<"z", "*">>)),
    Inline(B_STAR_PNG, <<"3", "/", "3", "0">>) }

DigitChar(i) ==
  CASE i = 0 -> "0" [] i = 1 -> "1" [] i = 2 -> "2" [] i = 3 -> "3"
    [] i = 4 -> "4" [] i = 5 -> "5" [] i = 6 -> "6" [] i = 7 -> "7"
    [] i = 8 -> "8" [] i = 9 -> "9"

\* The delays lists: the token at each position differs from the others.
DelayTokenAt(i) == IF i = 1 THEN <<"1", "/", "1", "0">> ELSE <<DigitChar(i)>>

DelayLists == {[i \in 1..n |-> DelayTokenAt(i)] : n \in 0..MaxDelays}

FrameLists == StringsUpTo(DeclSet, MaxFrames)

\* The end-to-end scenario of the specification.
ScenarioFrames ==
  << Bare(A_PNG), Inline(B_STAR_PNG, <<"3", "/", "3", "0">>), Bare(C_PNG) >>

ScenarioDoc ==
  [Doc(TRUE, Some(<<DelayTokenAt(1)>>), Some(ScenarioFrames))
     EXCEPT !.loops = Some(0)]

Input(filePath, content) == IdleLoad(filePath, content)

LoadInputs ==
  { Input(P(dir, S_JSON), Doc(opt, delays, frames)) :
      dir \in {DirD, DirDV}, opt \in BOOLEAN,
      delays \in {Some(d) : d \in DelayLists} \cup {Nothing},
      frames \in {Some(f) : f \in FrameLists} \cup {Nothing} }
  \cup { Input(P(dir, S_JSON), ScenarioDoc) : dir \in {DirD, DirDV} }
  \cup { Input(P(DirD, <<"s", ".", "J", "S", "O", "N">>), ScenarioDoc),
         Input(S_JSON, ScenarioDoc),
         Input(P(DirD, S_JSON),
               Doc(FALSE, Some(<<>>), Some(<<Bare(P(<<"f">>, <<"*">>))>>))) }
  \cup { Input(path, content) :
           path \in {P(DirD, S_JSON), P(DirD, <<"s", ".", "x", "m", "l">>)},
           content \in {NoDoc("missing"), NoDoc("invalid"),
                        Doc(FALSE, Nothing, Nothing)} }

Init ==
  /\ dToken = <<>>
  /\ dResult = Nothing
  /\ gSpec = <<>>
  /\ gCalled = "no"
  /\ fsFiles \in LoadListings
  /\ cwd = InitialCwd
  /\ files = <<>>
  /\ loads \in {<<l>> : l \in LoadInputs}
  /\ serialized = FALSE

Spec == Init /\ [][NextLoad]_vars

\* Two loads of spec files in different directories.
ConcInputs(dir) ==
  { Input(P(dir, S_JSON), Doc(TRUE, Some(<<DelayTokenAt(1)>>), Some(f))) :
      f \in {<<Bare(A_PNG)>>, <<Bare(B_STAR_PNG), Bare(C_PNG)>>} }
  \cup { Input(P(dir, S_JSON), Doc(FALSE, Nothing, Some(<<Bare(A_PNG)>>))) }

InitConc ==
  /\ dToken = <<>>
  /\ dResult = Nothing
  /\ gSpec = <<>>
  /\ gCalled = "no"
  /\ fsFiles \in LoadListings
  /\ cwd = InitialCwd
  /\ files = <<>>
  /\ loads \in {<<l1, l2>> : l1 \in ConcInputs(DirD), l2 \in ConcInputs(DirDV)}
  /\ serialized \in BOOLEAN

SpecConc == InitConc /\ [][NextLoad]_vars

----------------------------------------------------------------------------
(* Claims about the frame loop of JsonSpecReader.                          *)

D(n, d) == [num |-> U(n), den |-> U(d)]

\* A document JsonSpecReader decoded and that holds both lists.
Readable(l) ==
  /\ l.builder = "json"
  /\ l.content.state = "ok"
  /\ l.content.delays # Nothing
  /\ l.content.frames # Nothing

DocFrames(l) == l.content.frames[1]
DocDelays(l) == l.content.delays[1]

\* The delay the specification gives a bare declaration at 1-based index i.
ExpectedPositional(l, i) ==
  IF i <= Len(DocDelays(l)) THEN ClaimedDelay(DocDelays(l)[i])
  ELSE IF l.content.default_delay # Nothing
    THEN ClaimedDelay(l.content.default_delay[1])
  ELSE D(DEFAULT_FRAME_NUMERATOR, DEFAULT_FRAME_DENOMINATOR)

AllBare(frames) == \A i \in 1..Len(frames) : ~frames[i].inline

\* C1: with only bare declarations, the declaration at index i gets
\* delays[i] when the delays list reaches it and default_delay when not,
\* whatever number of files the earlier declarations expanded to.
C1_PositionalDelays ==
  \A t \in DOMAIN loads :
    LET l == loads[t]
    IN  (Readable(l) /\ AllBare(DocFrames(l))) =>
          /\ \A i \in 1..Len(l.declLog) :
               l.declLog[i].delay = ExpectedPositional(l, i)
          /\ l.pc \in {"resolve", "copy"} =>
               l.delay = ExpectedPositional(l, l.child + 1)

\* C1 witness: three bare declarations and two delays; the first expanded to
\* two files, the second to none, and the third got default_delay.
C1_Witness ==
  \E t \in DOMAIN loads :
    LET l == loads[t]
    IN  /\ l.pc = "done"
        /\ Readable(l) /\ AllBare(DocFrames(l))
        /\ Len(DocFrames(l)) = 3 /\ Len(DocDelays(l)) = 2
        /\ Len(l.declLog[1].files) = 2
        /\ Len(l.declLog[2].files) = 0
        /\ l.declLog[2].delay = D(2, DEFAULT_FRAME_DENOMINATOR)
        /\ l.declLog[3].delay = D(1, 20)

\* The number of FrameInfo entries the declarations before index i appended.
RECURSIVE SegmentStart(_, _)
SegmentStart(log, i) ==
  IF i <= 1 THEN 0
  ELSE SegmentStart(log, i - 1) + Len(log[i - 1].files)

\* C2: an inline declaration that expands to k files appends exactly k
\* FrameInfo entries, each with the parsed inline token and not a positional
\* delay; it advances the positional index by one, so a bare declaration
\* after it reads the delays list at its own declaration index.
C2_InlineDelay ==
  \A t \in DOMAIN loads :
    LET l == loads[t]
    IN  Readable(l) =>
          /\ Len(l.frameInfos) = SegmentStart(l.declLog, Len(l.declLog) + 1)
          /\ l.pc = "loop" => l.delayIndex = Len(l.declLog)
          /\ \A i \in 1..Len(l.declLog) :
               LET frame == DocFrames(l)[i]
                   off   == SegmentStart(l.declLog, i)
               IN  /\ frame.inline =>
                        \A n \in 1..Len(l.declLog[i].files) :
                          l.frameInfos[off + n] =
                            [filePath |-> l.declLog[i].files[n],
                             delay |-> ClaimedDelay(frame.token)]
                   /\ (~frame.inline /\ \E j \in 1..(i - 1) : DocFrames(l)[j].inline)
                        => l.declLog[i].delay = ExpectedPositional(l, i)

\* C2 witness: {"b*.png": "3/30"} expanded to two files, followed by a bare
\* declaration that read the second entry of the delays list.
C2_Witness ==
  \E t \in DOMAIN loads :
    LET l == loads[t]
    IN  /\ l.pc = "done"
        /\ Readable(l)
        /\ DocFrames(l) = <<Inline(B_STAR_PNG, <<"3", "/", "3", "0">>), Bare(A_PNG)>>
        /\ Len(DocDelays(l)) = 2
        /\ Len(l.frameInfos) = 3
        /\ l.frameInfos[1].delay = D(3, 30)
        /\ l.frameInfos[2].delay = D(3, 30)
        /\ l.frameInfos[3].delay = D(2, DEFAULT_FRAME_DENOMINATOR)

\* The FrameInfo entries of the declarations from index i on.
RECURSIVE ConcatFrom(_, _)
ConcatFrom(log, i) ==
  IF i > Len(log) THEN <<>>
  ELSE [n \in 1..Len(log[i].files) |->
          [filePath |-> log[i].files[n], delay |-> log[i].delay]]
       \o ConcatFrom(log, i + 1)

\* The directory of the spec file of an absolute path.
SpecDir(l) == ParentPath(l.filePath)

\* The result of the end-to-end scenario in directory dir.
ScenarioResult(dir) ==
  << [filePath |-> P(dir, A_PNG), delay |-> D(1, 10)],
     [filePath |-> P(dir, B1_PNG), delay |-> D(3, 30)],
     [filePath |-> P(dir, B2_PNG), delay |-> D(3, 30)],
     [filePath |-> P(dir, C_PNG), delay |-> D(1, 20)] >>

ScenarioFiles(dir) == {P(dir, A_PNG), P(dir, B1_PNG), P(dir, B2_PNG), P(dir, C_PNG)}

\* C3: after a successful load the frames are the concatenation, in
\* declaration order, of each declaration's resolved files with that
\* declaration's delay, a declaration without files adding nothing; the
\* end-to-end scenario gives [a.png 1/10, b1.png 3/30, b2.png 3/30, c.png 1/20].
C3_FramesAsClaimed ==
  \A t \in DOMAIN loads :
    LET l == loads[t]
    IN  (l.pc = "done" /\ Readable(l)) =>
          /\ Len(l.declLog) = Len(DocFrames(l))
          /\ l.frameInfos = ConcatFrom(l.declLog, 1)
          /\ (l.content = ScenarioDoc /\ ScenarioFiles(SpecDir(l)) \subseteq Range(fsFiles))
               => l.frameInfos = ScenarioResult(SpecDir(l))

\* The part of C3 the code meets: spec directories whose path holds no
\* character of the regex escape set.
C3_HoldsOutsideEscapedDirs ==
  \A t \in DOMAIN loads :
    LET l == loads[t]
    IN  (l.pc = "done" /\ Readable(l)) =>
          /\ Len(l.declLog) = Len(DocFrames(l))
          /\ l.frameInfos = ConcatFrom(l.declLog, 1)
          /\ (l.content = ScenarioDoc /\ ScenarioFiles(SpecDir(l)) \subseteq Range(fsFiles)
                /\ Range(SpecDir(l)) \cap EscapeSet = {})
               => l.frameInfos = ScenarioResult(SpecDir(l))

----------------------------------------------------------------------------
(* Claims about failures, the working directory and the dispatch.          *)

Ended(l) == l.pc \in {"done", "failed"}

\* C4: a JSON document without the frames list or without the delays list
\* makes the load fail with an error; no BuildSpec is returned for it, also
\* when every declaration is inline or the frames list is empty.
C4_MissingListsFail ==
  \A t \in DOMAIN loads :
    LET l == loads[t]
    IN  (l.builder = "json" /\ l.content.state = "ok"
           /\ (l.content.delays = Nothing \/ l.content.frames = Nothing)) =>
          /\ l.pc # "done"
          /\ l.content.delays = Nothing => l.pc \notin {"frames", "loop", "resolve", "copy"}
          /\ l.pc \notin {"loop", "resolve", "copy"}
          /\ l.pc = "failed" => l.err = "ptree_bad_path" /\ l.frameInfos = <<>>

\* C4 witness: the load of a document whose only declaration is inline and
\* that has no delays list failed with ptree_bad_path.
C4_Witness ==
  \E t \in DOMAIN loads :
    LET l == loads[t]
    IN  /\ l.pc = "failed" /\ l.err = "ptree_bad_path"
        /\ l.content.delays = Nothing
        /\ l.content.frames = Some(<<Inline(B_STAR_PNG, <<"3", "/", "3", "0">>)>>)

\* C5: whenever a load ends, by returning or by failing, the working
\* directory is what it was immediately before the call.
C5_CwdRestored ==
  \A t \in DOMAIN loads :
    Ended(loads[t]) => cwd = loads[t].cwdAtCall

\* The part of C5 the code meets: a load that returns.
C5_HoldsOnReturn ==
  \A t \in DOMAIN loads :
    loads[t].pc = "done" => cwd = loads[t].cwdAtCall

\* s ends in ".json" in any letter case.
EndsInJson(s) ==
  /\ Len(s) >= 5
  /\ s[Len(s) - 4] = "."
  /\ s[Len(s) - 3] \in {"j", "J"}
  /\ s[Len(s) - 2] \in {"s", "S"}
  /\ s[Len(s) - 1] \in {"o", "O"}
  /\ s[Len(s)] \in {"n", "N"}

\* C9: the suffix alone selects the builder, and a file that cannot be
\* decoded in the selected format makes the load fail: no BuildSpec, and so
\* none holding the defaults, is returned for it.
C9_UndecodableFails ==
  \A t \in DOMAIN loads :
    LET l == loads[t]
    IN  /\ l.pc # "idle" =>
             l.builder = (IF EndsInJson(l.filePath) THEN "json" ELSE "xml")
        /\ l.content.state # "ok" => l.pc # "done"

\* The part of C9 the code meets: the dispatch, and the JSON builder.
C9_HoldsForJson ==
  \A t \in DOMAIN loads :
    LET l == loads[t]
    IN  /\ l.pc # "idle" =>
             l.builder = (IF EndsInJson(l.filePath) THEN "json" ELSE "xml")
        /\ (l.content.state # "ok" /\ l.builder = "json") => l.pc # "done"

----------------------------------------------------------------------------
(* Claims about two concurrent loads.                                      *)

\* Load t resolved a frame path against a directory other than its own.
Misresolved(t) ==
  LET l == loads[t]
  IN  /\ l.pc \in {"resolve", "copy"}
      /\ l.absPath # Absolute(DocFrames(l)[l.child + 1].path, SpecDir(l))

\* Load t read a file list other than the one of its own declaration.
ReadForeignFiles(t) ==
  LET l == loads[t]
  IN  \E i \in 1..Len(l.declLog) :
        l.declLog[i].files #
          ResolveAbs(Absolute(DocFrames(l)[i].path, SpecDir(l))).files

\* Both loads returned and the working directory is not the one before them.
CwdLeaked ==
  /\ \A t \in DOMAIN loads : loads[t].pc = "done"
  /\ cwd # InitialCwd

\* C10: two loads serialized by a mutex never resolve against the other's
\* directory, never read the other's file list and leave the working
\* directory as it was; without the mutex an interleaving does (C10_Witness).
C10_SerializedLoadsAreSafe ==
  serialized =>
    /\ \A t \in DOMAIN loads : ~Misresolved(t) /\ ~ReadForeignFiles(t)
    /\ ~CwdLeaked

\* C10 witness: without serialization, both loads returned, one of them with
\* frames of the other's directory, and the working directory was not
\* restored.
C10_Witness ==
  /\ ~serialized
  /\ CwdLeaked
  /\ \E t \in DOMAIN loads : ReadForeignFiles(t)

\* C10, second witness: a load about to read the shared vector while the
\* path it resolved lies in the other load's directory.
C10_WitnessMisresolved ==
  /\ ~serialized
  /\ \E t \in DOMAIN loads : Misresolved(t)

====
